---- MODULE Spec2Model ----
(***************************************************************************)
(* Geowagdy (src/App/app.py): a Qt window of plot panels. Each panel has    *)
(* two text fields f1(x), f2(x) and a "Solve + Plot" button; the handler    *)
(* parses both texts, solves f1 = f2, and plots both curves with the real   *)
(* intersections marked.                                                    *)
(*                                                                          *)
(* Texts are sequences of one-character strings. sympy (parse_expr, solve,  *)
(* subs, is_real, float) is a library outside src/: parse_expr is modelled  *)
(* by a tokenizer and a recursive-descent parser for the grammar the        *)
(* character filter lets through, subs/is_real by exact evaluation over the *)
(* rationals with opaque irrational reals, and solve by a nondeterministic  *)
(* choice of what the library returns.                                      *)
(***************************************************************************)
EXTENDS Integers, Sequences, FiniteSets, TLC

VARIABLES tabs, current, last, arg, ret, splash

vars == <<tabs, current, last, arg, ret, splash>>

----------------------------------------------------------------------------
(* Characters *)

Digits == {"0", "1", "2", "3", "4", "5", "6", "7", "8", "9"}

Whitespace == {" ", "\t"}

\* Letters that can reach the tokenizer: x, and the letters of log10 / sqrt.
Letters == {"x", "l", "o", "g", "s", "q", "r", "t"}

log10_name == <<"l", "o", "g", "1", "0">>

sqrt_name == <<"s", "q", "r", "t">>

\* the character class without \s
safe_chars_no_whitespace == Digits \cup {"x", "+", "-", "*", "/", "(", ")", "."}

\* safe_chars_regex = r"[0-9x\+\-\*/\(\)\.\s\*]"
safe_chars == Digits \cup {"x", "+", "-", "*", "/", "(", ")", "."} \cup Whitespace

----------------------------------------------------------------------------
(* Python str methods *)

RECURSIVE replace(_, _, _)
\* str.replace(old, new): leftmost non-overlapping occurrences, old non-empty.
replace(s, old, new) ==
    IF Len(s) < Len(old) THEN s
    ELSE IF SubSeq(s, 1, Len(old)) = old
         THEN new \o replace(SubSeq(s, Len(old) + 1, Len(s)), old, new)
         ELSE <<s[1]>> \o replace(Tail(s), old, new)

RECURSIVE lstrip(_)
lstrip(s) == IF s # <<>> /\ s[1] \in Whitespace THEN lstrip(Tail(s)) ELSE s

RECURSIVE rstrip(_)
rstrip(s) ==
    IF s # <<>> /\ s[Len(s)] \in Whitespace
    THEN rstrip(SubSeq(s, 1, Len(s) - 1)) ELSE s

\* str.strip()
strip(s) == rstrip(lstrip(s))

----------------------------------------------------------------------------
(* The tokenizer parse_expr runs first (Python's tokenize): numbers, names,  *)
(* operators; whitespace separates tokens.                                   *)

Tk(t, s, n, d) == [t |-> t, s |-> s, n |-> n, d |-> d]

RECURSIVE DigitRun(_, _)
\* index after the run of digits that starts at i
DigitRun(s, i) ==
    IF i <= Len(s) /\ s[i] \in Digits THEN DigitRun(s, i + 1) ELSE i

RECURSIVE NameRun(_, _)
\* index after the run of letters and digits that starts at i
NameRun(s, i) ==
    IF i <= Len(s) /\ s[i] \in (Letters \cup Digits) THEN NameRun(s, i + 1) ELSE i

DigitVal(c) ==
    CASE c = "0" -> 0 [] c = "1" -> 1 [] c = "2" -> 2 [] c = "3" -> 3
      [] c = "4" -> 4 [] c = "5" -> 5 [] c = "6" -> 6 [] c = "7" -> 7
      [] c = "8" -> 8 [] c = "9" -> 9

RECURSIVE IntOf(_)
IntOf(ds) ==
    IF ds = <<>> THEN 0
    ELSE 10 * IntOf(SubSeq(ds, 1, Len(ds) - 1)) + DigitVal(ds[Len(ds)])

RECURSIVE Pow10(_)
Pow10(k) == IF k = 0 THEN 1 ELSE 10 * Pow10(k - 1)

\* the number literal s[i..j-1] with its fraction digits s[f..j-1] (f = j: none)
NumTok(s, i, dot, j) ==
    LET ip == SubSeq(s, i, dot - 1)
        fp == SubSeq(s, dot + 1, j - 1)
    IN  Tk("num", <<>>, IntOf(ip \o fp), Pow10(Len(fp)))

RECURSIVE Tokenize(_, _)
Tokenize(s, i) ==
    IF i > Len(s) THEN <<>>
    ELSE LET c == s[i] IN
      IF c \in Whitespace THEN Tokenize(s, i + 1)
      ELSE IF c \in Digits THEN
        LET a == DigitRun(s, i) IN
          IF a <= Len(s) /\ s[a] = "."
          THEN LET b == DigitRun(s, a + 1)
               IN  <<NumTok(s, i, a, b)>> \o Tokenize(s, b)
          ELSE <<Tk("num", <<>>, IntOf(SubSeq(s, i, a - 1)), 1)>> \o Tokenize(s, a)
      ELSE IF c = "." /\ i < Len(s) /\ s[i + 1] \in Digits THEN
        LET b == DigitRun(s, i + 1)
        IN  <<NumTok(s, i, i, b)>> \o Tokenize(s, b)
      ELSE IF c \in Letters THEN
        LET b == NameRun(s, i)
        IN  <<Tk("name", SubSeq(s, i, b - 1), 0, 1)>> \o Tokenize(s, b)
      ELSE IF c = "*" /\ i < Len(s) /\ s[i + 1] = "*"
        THEN <<Tk("op", <<"*", "*">>, 0, 1)>> \o Tokenize(s, i + 2)
      ELSE <<Tk("op", <<c>>, 0, 1)>> \o Tokenize(s, i + 1)

----------------------------------------------------------------------------
(* parse_expr(expr_str, local_dict, transformations): the expression tree.  *)
(* local_dict binds x, log10 and sqrt. Any other name is made a Symbol by   *)
(* auto_symbol (an undefined Function when "(" follows) and then split into *)
(* one symbol per character by split_symbols. Adjacent operands multiply    *)
(* (implicit_multiplication); a function name followed by an operand is     *)
(* applied to it (implicit_application).                                    *)

Nd(op, a, b, v) == [op |-> op, a |-> a, b |-> b, v |-> v]

NumNode(n, d) == Nd("num", <<>>, <<>>, <<n, d>>)

XNode == Nd("x", <<>>, <<>>, <<>>)

IsFuncName(s) == s = log10_name \/ s = sqrt_name

IsOp(tok, c) == tok.t = "op" /\ tok.s = c

StartsOperand(tok) == tok.t \in {"num", "name"} \/ IsOp(tok, <<"(">>)

CharNode(c) ==
    IF c = "x" THEN XNode
    ELSE IF c \in Digits THEN NumNode(DigitVal(c), 1)
    ELSE Nd("sym", <<>>, <<>>, c)

RECURSIVE SplitSymbols(_)
\* split_symbols: Symbol('abc') becomes a*b*c
SplitSymbols(name) ==
    IF Len(name) = 1 THEN CharNode(name[1])
    ELSE Nd("mul", SplitSymbols(SubSeq(name, 1, Len(name) - 1)),
            CharNode(name[Len(name)]), <<>>)

ParseFail == [ok |-> FALSE, node |-> <<>>, pos |-> 0]

ParseOk(node, pos) == [ok |-> TRUE, node |-> node, pos |-> pos]

\* r with its node wrapped: op(r.node)
Wrap1(r, op, v) ==
    IF r.ok THEN ParseOk(Nd(op, r.node, <<>>, v), r.pos) ELSE ParseFail

\* the binary node op(left, r.node)
Wrap2(left, r, op) ==
    IF r.ok THEN ParseOk(Nd(op, left.node, r.node, <<>>), r.pos) ELSE ParseFail

\* r, when the closing parenthesis follows it
CloseParen(toks, r) ==
    IF r.ok /\ r.pos <= Len(toks) /\ IsOp(toks[r.pos], <<")">>)
    THEN ParseOk(r.node, r.pos + 1) ELSE ParseFail

RECURSIVE ParseSum(_, _), ParseSumRest(_, _), ParseTerm(_, _), ParseTermRest(_, _)
RECURSIVE ParseFactor(_, _), ParsePower(_, _), ParsePowerRest(_, _), ParseAtom(_, _)

ParseParen(toks, i) == CloseParen(toks, ParseSum(toks, i + 1))

ParseAtom(toks, i) ==
    IF i > Len(toks) THEN ParseFail
    ELSE IF toks[i].t = "num" THEN ParseOk(NumNode(toks[i].n, toks[i].d), i + 1)
    ELSE IF IsOp(toks[i], <<"(">>) THEN ParseParen(toks, i)
    ELSE IF toks[i].t = "name" /\ toks[i].s = <<"x">> THEN ParseOk(XNode, i + 1)
    ELSE IF toks[i].t = "name" /\ IsFuncName(toks[i].s) THEN
      \* a call, or implicit application; a bare function name inside
      \* arithmetic makes parse_expr's eval raise TypeError
      IF i < Len(toks) /\ IsOp(toks[i + 1], <<"(">>)
      THEN Wrap1(ParseParen(toks, i + 1), "call", toks[i].s)
      ELSE IF i < Len(toks) /\ StartsOperand(toks[i + 1])
      THEN Wrap1(ParsePower(toks, i + 1), "call", toks[i].s)
      ELSE ParseFail
    ELSE IF toks[i].t = "name" THEN
      IF i < Len(toks) /\ IsOp(toks[i + 1], <<"(">>)
      THEN Wrap1(ParseParen(toks, i + 1), "undef", toks[i].s)
      ELSE ParseOk(SplitSymbols(toks[i].s), i + 1)
    ELSE ParseFail

ParsePowerRest(toks, a) ==
    IF a.ok /\ a.pos <= Len(toks) /\ IsOp(toks[a.pos], <<"*", "*">>)
    THEN Wrap2(a, ParseFactor(toks, a.pos + 1), "pow")
    ELSE a

ParsePower(toks, i) == ParsePowerRest(toks, ParseAtom(toks, i))

ParseFactor(toks, i) ==
    IF i > Len(toks) THEN ParseFail
    ELSE IF IsOp(toks[i], <<"-">>) THEN Wrap1(ParseFactor(toks, i + 1), "neg", <<>>)
    ELSE IF IsOp(toks[i], <<"+">>) THEN ParseFactor(toks, i + 1)
    ELSE ParsePower(toks, i)

ParseTermRest(toks, left) ==
    IF ~left.ok \/ left.pos > Len(toks) THEN left
    ELSE IF IsOp(toks[left.pos], <<"*">>)
    THEN ParseTermRest(toks, Wrap2(left, ParseFactor(toks, left.pos + 1), "mul"))
    ELSE IF IsOp(toks[left.pos], <<"/">>)
    THEN ParseTermRest(toks, Wrap2(left, ParseFactor(toks, left.pos + 1), "div"))
    ELSE IF StartsOperand(toks[left.pos])
    THEN ParseTermRest(toks, Wrap2(left, ParsePower(toks, left.pos), "mul"))
    ELSE left

ParseTerm(toks, i) == ParseTermRest(toks, ParseFactor(toks, i))

ParseSumRest(toks, left) ==
    IF ~left.ok \/ left.pos > Len(toks) THEN left
    ELSE IF IsOp(toks[left.pos], <<"+">>)
    THEN ParseSumRest(toks, Wrap2(left, ParseTerm(toks, left.pos + 1), "add"))
    ELSE IF IsOp(toks[left.pos], <<"-">>)
    THEN ParseSumRest(toks, Wrap2(left, ParseTerm(toks, left.pos + 1), "sub"))
    ELSE left

ParseSum(toks, i) == ParseSumRest(toks, ParseTerm(toks, i))

\* the result of the whole token list
ParseAll(toks, r) ==
    IF Len(toks) = 1 /\ toks[1].t = "name" /\ IsFuncName(toks[1].s)
    THEN [kind |-> "callable", node |-> <<>>]
    ELSE IF r.ok /\ r.pos = Len(toks) + 1
    THEN [kind |-> "expr", node |-> r.node]
    ELSE [kind |-> "error", node |-> <<>>]

ParseTokens(toks) == ParseAll(toks, ParseSum(toks, 1))

\* What parse_expr gives for a text: "expr" (a sympy expression), "callable"
\* (the text is just log10 or sqrt: the bound Python function itself) or
\* "error" (tokenize / eval raises).
parse_expr(expr_str) == ParseTokens(Tokenize(expr_str, 1))

RECURSIVE free_symbols(_)
\* expr.free_symbols
free_symbols(e) ==
    CASE e.op = "num" -> {}
      [] e.op = "x" -> {"x"}
      [] e.op = "sym" -> {e.v}
      [] e.op \in {"neg", "call", "undef"} -> free_symbols(e.a)
      [] OTHER -> free_symbols(e.a) \cup free_symbols(e.b)

----------------------------------------------------------------------------
(* PlotWidget.string_to_sympy_expr *)

RECURSIVE first_illegal(_)
\* the for loop over temp: the first character re.match rejects, or <<>>
first_illegal(temp) ==
    IF temp = <<>> THEN <<>>
    ELSE IF temp[1] \notin safe_chars THEN <<temp[1]>>
    ELSE first_illegal(Tail(temp))

caret_rewrite(s) == replace(s, <<"^">>, <<"*", "*">>)

strip_names(s) == replace(replace(s, log10_name, <<>>), sqrt_name, <<>>)

\* the value returned, or the error raised, once the scan found no illegal
\* character and parse_expr gave r
after_parse(expr_str, r) ==
    IF r.kind = "error"
    THEN [raised |-> TRUE, exc |-> "ParseError", char |-> "",
          text |-> expr_str, kind |-> "none", node |-> <<>>, parsed |-> TRUE]
    ELSE [raised |-> FALSE, exc |-> "", char |-> "",
          text |-> expr_str, kind |-> r.kind, node |-> r.node, parsed |-> TRUE]

\* the scan of temp, then parse_expr
scan_then_parse(expr_str, bad) ==
    IF bad # <<>>
    THEN [raised |-> TRUE, exc |-> "ValueError", char |-> bad[1],
          text |-> expr_str, kind |-> "none", node |-> <<>>, parsed |-> FALSE]
    ELSE after_parse(expr_str, parse_expr(expr_str))

\* Returns [raised, exc, char, text, kind, node, parsed]: raised with exc
\* "ValueError" (illegal character, before parse_expr is called: parsed is
\* FALSE), raised with exc "ParseError" (parse_expr raised), or the value
\* parse_expr returned. text is expr_str where the error message is built.
string_to_sympy_expr(text) ==
    scan_then_parse(caret_rewrite(text), first_illegal(strip_names(caret_rewrite(text))))

----------------------------------------------------------------------------
(* Numbers. A value is a rational "q" (n/d, d > 0), an opaque real "r" whose *)
(* sign n is known (1, -1) or not (0) and which is huge (d = 1) or not, or   *)
(* "nr": a value whose is_real is not True (complex, zoo, nan, symbolic).    *)
(* "u" marks a value this arithmetic cannot classify; ModelCovers states     *)
(* that no reachable plot holds one.                                         *)

Q(n, d) == [k |-> "q", n |-> n, d |-> d]

R(sg, huge) == [k |-> "r", n |-> sg, d |-> IF huge THEN 1 ELSE 0]

NotReal == [k |-> "nr", n |-> 0, d |-> 0]

Unclassified == [k |-> "u", n |-> 0, d |-> 0]

Sgn(n) == IF n > 0 THEN 1 ELSE IF n < 0 THEN -1 ELSE 0

Abs(n) == IF n < 0 THEN -n ELSE n

\* the sign of a real value: 1, -1, 0 (zero), or 2 (not known)
SignOf(a) ==
    IF a.k = "q" THEN Sgn(a.n) ELSE IF a.n = 0 THEN 2 ELSE a.n

Huge(a) == a.k = "r" /\ a.d = 1

Strict(a, b, val) ==
    IF a.k = "nr" \/ b.k = "nr" THEN NotReal
    ELSE IF a.k = "u" \/ b.k = "u" THEN Unclassified
    ELSE val

VNeg(a) ==
    IF a.k = "q" THEN Q(-a.n, a.d)
    ELSE IF a.k = "r" THEN [a EXCEPT !.n = -a.n]
    ELSE a

VAdd(a, b) ==
    Strict(a, b,
      IF a.k = "q" /\ b.k = "q" THEN Q(a.n * b.d + b.n * a.d, a.d * b.d)
      ELSE IF a.k = "q" /\ a.n = 0 THEN b
      ELSE IF b.k = "q" /\ b.n = 0 THEN a
      ELSE IF Huge(a) /\ ~Huge(b) THEN a
      ELSE IF Huge(b) /\ ~Huge(a) THEN b
      ELSE IF SignOf(a) = SignOf(b) /\ SignOf(a) # 2
           THEN R(SignOf(a), Huge(a) /\ Huge(b))
      ELSE R(0, FALSE))

VMul(a, b) ==
    Strict(a, b,
      IF a.k = "q" /\ b.k = "q" THEN Q(a.n * b.n, a.d * b.d)
      ELSE IF SignOf(a) = 0 \/ SignOf(b) = 0 THEN Q(0, 1)
      ELSE IF SignOf(a) = 2 \/ SignOf(b) = 2 THEN R(0, Huge(a) \/ Huge(b))
      ELSE R(SignOf(a) * SignOf(b), Huge(a) \/ Huge(b)))

\* 1/a; 1/0 is zoo
VInv(a) ==
    IF a.k = "q" THEN (IF a.n = 0 THEN NotReal ELSE Q(Sgn(a.n) * a.d, Abs(a.n)))
    ELSE IF a.k = "r" THEN (IF a.n = 0 THEN Unclassified ELSE R(a.n, FALSE))
    ELSE a

VDiv(a, b) == VMul(a, VInv(b))

RECURSIVE IntPow(_, _)
IntPow(a, e) == IF e = 0 THEN Q(1, 1) ELSE VMul(a, IntPow(a, e - 1))

VPow(a, b) ==
    Strict(a, b,
      IF b.k = "q" /\ b.n % b.d = 0
      THEN LET e == b.n \div b.d
           IN  IF e >= 0 THEN IntPow(a, e) ELSE VInv(IntPow(a, -e))
      ELSE IF SignOf(a) = 1 THEN R(1, FALSE)
      ELSE IF SignOf(a) = 0
           THEN (IF SignOf(b) = 1 THEN Q(0, 1)
                 ELSE IF SignOf(b) = -1 THEN NotReal ELSE Unclassified)
      ELSE IF SignOf(a) = -1 THEN NotReal
      ELSE Unclassified)

\* the principal square root; of a positive rational it is kept opaque
VSqrt(a) ==
    IF a.k \in {"nr", "u"} THEN a
    ELSE IF SignOf(a) = 0 THEN Q(0, 1)
    ELSE IF SignOf(a) = 1 THEN R(1, Huge(a))
    ELSE IF SignOf(a) = -1 THEN NotReal
    ELSE Unclassified

\* log(a, 10) = log(a)/log(10)
VLog10(a) ==
    IF a.k \in {"nr", "u"} THEN a
    ELSE IF SignOf(a) \in {0, -1} THEN NotReal
    ELSE IF SignOf(a) = 2 THEN Unclassified
    ELSE IF a.k = "q"
         THEN (IF a.n = a.d THEN Q(0, 1) ELSE R(IF a.n > a.d THEN 1 ELSE -1, FALSE))
    ELSE IF Huge(a) THEN R(1, FALSE)
    ELSE R(0, FALSE)

RECURSIVE subs(_, _)
\* expr.subs(x, v), evaluated
subs(e, v) ==
    CASE e.op = "num" -> Q(e.v[1], e.v[2])
      [] e.op = "x" -> v
      [] e.op = "sym" -> NotReal
      [] e.op = "undef" -> NotReal
      [] e.op = "neg" -> VNeg(subs(e.a, v))
      [] e.op = "add" -> VAdd(subs(e.a, v), subs(e.b, v))
      [] e.op = "sub" -> VAdd(subs(e.a, v), VNeg(subs(e.b, v)))
      [] e.op = "mul" -> VMul(subs(e.a, v), subs(e.b, v))
      [] e.op = "div" -> VDiv(subs(e.a, v), subs(e.b, v))
      [] e.op = "pow" -> VPow(subs(e.a, v), subs(e.b, v))
      [] e.op = "call" ->
           IF e.v = sqrt_name THEN VSqrt(subs(e.a, v)) ELSE VLog10(subs(e.a, v))

\* y.is_real (True, as opposed to False or None)
is_real(y) == y.k \in {"q", "r"}

----------------------------------------------------------------------------
(* Python floats. A double has 53 significant bits: an integer below 2^53   *)
(* is exact, and a double of magnitude 2^57 or more is spaced 16 or more    *)
(* apart, so adding or subtracting 5 rounds back to it. A float is modelled *)
(* as m (big = FALSE) or m * 2^60 (big = TRUE, m # 0), m a small integer.   *)

Fl(m, big) == [m |-> m, big |-> big]

BigPart(f) == IF f.big THEN f.m ELSE 0

SmallPart(f) == IF f.big THEN 0 ELSE f.m

FLess(a, b) ==
    \/ BigPart(a) < BigPart(b)
    \/ BigPart(a) = BigPart(b) /\ SmallPart(a) < SmallPart(b)

\* f + c in double arithmetic, c a small integer
fadd(f, c) == IF f.big THEN f ELSE [f EXCEPT !.m = f.m + c]

\* the value sympy gets when a float is substituted
ValueOf(f) == IF f.big THEN R(Sgn(f.m), TRUE) ELSE Q(f.m, 1)

\* min(xs), max(xs)
pymin(xs) == CHOOSE a \in {xs[i] : i \in 1..Len(xs)} :
                 \A i \in 1..Len(xs) : ~FLess(xs[i], a)

pymax(xs) == CHOOSE a \in {xs[i] : i \in 1..Len(xs)} :
                 \A i \in 1..Len(xs) : ~FLess(a, xs[i])

----------------------------------------------------------------------------
(* PlotWidget.plot_functions *)

Padding == 5

DefaultXMin == -10

DefaultXMax == 10

SampleCount == 400

NaN == [k |-> "nan", n |-> 0, d |-> 0]

\* "Decide range"
plot_range(intersections) ==
    IF intersections # <<>>
    THEN LET xs == [i \in 1..Len(intersections) |-> intersections[i][1]]
         IN  <<fadd(pymin(xs), -Padding), fadd(pymax(xs), Padding)>>
    ELSE <<Fl(DefaultXMin, FALSE), Fl(DefaultXMax, FALSE)>>

\* np.linspace(x_min, x_max, num)[i - 1], i in 1..num: the value
\* x_min + (i-1)*(x_max - x_min)/(num-1). Its 2^60 part decides it when that
\* part is not zero.
linspace(x_min, x_max, num, i) ==
    LET bigc == (num - 1) * BigPart(x_min) + (i - 1) * (BigPart(x_max) - BigPart(x_min))
        smallc == (num - 1) * SmallPart(x_min)
                    + (i - 1) * (SmallPart(x_max) - SmallPart(x_min))
    IN  IF bigc # 0 THEN R(Sgn(bigc), TRUE) ELSE Q(smallc, num - 1)

\* float(y) if y.is_real else np.nan
sample_zero(y) == IF is_real(y) THEN y ELSE Q(0, 1)

sample(y) == IF is_real(y) THEN y ELSE NaN

curve(expr, x_min, x_max) ==
    [i \in 1..SampleCount |-> sample(subs(expr, linspace(x_min, x_max, SampleCount, i)))]

\* The axes after plot_functions: the two sampled curves and the marked points.
plot_functions(expr_f1, expr_f2, intersections) ==
    LET rng == plot_range(intersections) IN
      [kind |-> "plot",
       x_min |-> rng[1], x_max |-> rng[2],
       f1_vals |-> curve(expr_f1, rng[1], rng[2]),
       f2_vals |-> curve(expr_f2, rng[1], rng[2]),
       points |-> intersections]

\* axes.clear(): what clear_plot leaves, and what a new canvas shows
EmptyAxes == [kind |-> "empty"]

----------------------------------------------------------------------------
(* PlotWidget.on_solve_clicked *)

\* What sympy.solve(Eq(expr_f1, expr_f2), x, dict=True) does is chosen
\* nondeterministically: it raises, or returns a list of solutions. A solution
\* has is_real (True or not), the double float(val) gives, and whether
\* float(val) succeeds.
Sol(x, real, conv) == [x |-> x, is_real |-> real, float_ok |-> conv]

Raises == [raises |-> TRUE, solutions |-> <<>>]

Returns(sols) == [raises |-> FALSE, solutions |-> sols]

EmptyMsg == "Both function fields must be filled."

NoRealMsg == "No real intersection found. Plotting both functions anyway."

ErrorMsg == "An error occurred:"

\* QMessageBox.critical / QMessageBox.information; exc is the exception the
\* traceback in the message shows
Critical(msg, exc) == [kind |-> "critical", msg |-> msg, exc |-> exc]

Information(msg) == [kind |-> "information", msg |-> msg, exc |-> <<>>]

Exc(type, char, text) == [type |-> type, char |-> char, text |-> text]

ExcOf(r) == Exc(r.exc, r.char, r.text)

\* the outcome of one click: the axes, the steps called, the dialogs shown,
\* the two expressions, what sympy.solve did ("none": not called) and returned,
\* and the intersections handed to plot_functions
Outcome(canvas, calls, dialogs, exprs, solved, roots) ==
    [canvas |-> canvas, calls |-> calls, dialogs |-> dialogs,
     exprs |-> exprs, solve |-> solved[1], solutions |-> solved[2], roots |-> roots]

NotSolved == <<"none", <<>>>>

\* real_solutions.insert(0, val)
real_solutions_reversed(solutions) ==
    [i \in 1..Len(SelectSeq(solutions, LAMBDA sol : sol.is_real)) |->
        SelectSeq(solutions, LAMBDA sol : sol.is_real)
            [Len(SelectSeq(solutions, LAMBDA sol : sol.is_real)) + 1 - i]]

\* real_solutions: the for loop with "if val.is_real", appending
real_solutions_of(solutions) == SelectSeq(solutions, LAMBDA sol : sol.is_real)

\* one (float_x, float_y), y being expr_f1.subs(x, float_x); ok is FALSE when
\* float(val) or float(y) raises
converted(val, y) == [ok |-> val.float_ok /\ is_real(y), pt |-> <<val.x, y>>]

convert(expr_f1, val) == converted(val, subs(expr_f1, ValueOf(val.x)))

\* the for loop over real_solutions
conversions(expr_f1, real_solutions) ==
    [i \in 1..Len(real_solutions) |-> convert(expr_f1, real_solutions[i])]

\* the "if not real_solutions / else" block
plot_solutions(panel, exprs, solutions, conv) ==
    IF conv = <<>>
    THEN Outcome(plot_functions(exprs[1], exprs[2], <<>>),
                 <<"parse", "parse", "solve", "plot">>,
                 <<Information(NoRealMsg)>>, exprs, <<"returned", solutions>>, <<>>)
    ELSE IF \E i \in 1..Len(conv) : ~conv[i].ok
    THEN Outcome(panel.canvas, <<"parse", "parse", "solve">>,
                 <<Critical(ErrorMsg, Exc("TypeError", "", <<>>))>>,
                 exprs, <<"returned", solutions>>, <<>>)
    ELSE Outcome(plot_functions(exprs[1], exprs[2], [i \in 1..Len(conv) |-> conv[i].pt]),
                 <<"parse", "parse", "solve", "plot">>, <<>>,
                 exprs, <<"returned", solutions>>, [i \in 1..Len(conv) |-> conv[i].pt])

\* the try block once both texts have parsed
solve_and_plot(panel, exprs, oracle) ==
    IF oracle.raises
    THEN Outcome(panel.canvas, <<"parse", "parse", "solve">>,
                 <<Critical(ErrorMsg, Exc("NotImplementedError", "", <<>>))>>,
                 exprs, <<"raised", <<>>>>, <<>>)
    ELSE plot_solutions(panel, exprs, oracle.solutions,
                        conversions(exprs[1], real_solutions_of(oracle.solutions)))

\* after expr_f1 = r1 and expr_f2 = r2
with_both(panel, r1, r2, oracle) ==
    IF r2.raised
    THEN Outcome(panel.canvas, <<"parse", "parse">>,
                 <<Critical(ErrorMsg, ExcOf(r2))>>, <<>>, NotSolved, <<>>)
    ELSE IF r1.kind = "callable" \/ r2.kind = "callable"
    \* sympy.Eq cannot sympify a Python function: solve is not reached
    THEN Outcome(panel.canvas, <<"parse", "parse">>,
                 <<Critical(ErrorMsg, Exc("SympifyError", "", <<>>))>>,
                 <<>>, NotSolved, <<>>)
    ELSE solve_and_plot(panel, <<r1.node, r2.node>>, oracle)

\* a failed parse of the first text also clears the axes
with_first_clearing(panel, r1, f2_str, oracle) ==
    IF r1.raised
    THEN Outcome(EmptyAxes, <<"parse">>,
                 <<Critical(ErrorMsg, ExcOf(r1))>>, <<>>, NotSolved, <<>>)
    ELSE with_both(panel, r1, string_to_sympy_expr(f2_str), oracle)

\* after expr_f1 = r1: parse the second text, then solve
with_first(panel, r1, f2_str, oracle) ==
    IF r1.raised
    THEN Outcome(panel.canvas, <<"parse">>,
                 <<Critical(ErrorMsg, ExcOf(r1))>>, <<>>, NotSolved, <<>>)
    ELSE with_both(panel, r1, string_to_sympy_expr(f2_str), oracle)

\* "if not f1_str and not f2_str"
with_texts_both_blank(panel, f1_str, f2_str, oracle) ==
    IF f1_str = <<>> /\ f2_str = <<>>
    THEN Outcome(EmptyAxes, <<>>, <<Critical(EmptyMsg, <<>>)>>, <<>>, NotSolved, <<>>)
    ELSE with_first(panel, string_to_sympy_expr(f1_str), f2_str, oracle)

\* the "Validate input" block, then the try block
with_texts(panel, f1_str, f2_str, oracle) ==
    IF f1_str = <<>> \/ f2_str = <<>>
    THEN Outcome(EmptyAxes, <<>>, <<Critical(EmptyMsg, <<>>)>>, <<>>, NotSolved, <<>>)
    ELSE with_first(panel, string_to_sympy_expr(f1_str), f2_str, oracle)

on_solve(panel, oracle) ==
    with_texts(panel, strip(panel.edit_f1), strip(panel.edit_f2), oracle)

----------------------------------------------------------------------------
(* SplashScreen: at is where main() stands ("none": no splash screen is    *)
(* made, as when MainWindow is constructed on its own).                     *)

ProgressMax == 100

\* main() before SplashScreen(1200, 800, window)
NoSplash ==
    [at |-> "none", progress_value |-> 0, timer_active |-> FALSE,
     visible |-> FALSE, main_window_shows |-> 0]

\* SplashScreen.__init__: progress_value = 0, timer.start(30)
NewSplashScreen ==
    [at |-> "made", progress_value |-> 0, timer_active |-> TRUE,
     visible |-> FALSE, main_window_shows |-> 0]

\* "if self.progress_value > 100"
update_progress_past(s) ==
    IF s.progress_value + 1 > ProgressMax
    THEN [s EXCEPT !.progress_value = @ + 1, !.timer_active = FALSE,
                   !.visible = FALSE, !.main_window_shows = @ + 1]
    ELSE [s EXCEPT !.progress_value = @ + 1]

\* SplashScreen.update_progress
update_progress(s) ==
    IF s.progress_value + 1 >= ProgressMax
    THEN [s EXCEPT !.progress_value = @ + 1, !.timer_active = FALSE,
                   !.visible = FALSE, !.main_window_shows = @ + 1]
    ELSE [s EXCEPT !.progress_value = @ + 1]

----------------------------------------------------------------------------
(* State: tabs is the QTabWidget's list of PlotWidgets, each with the text   *)
(* of its two fields and what its canvas shows; current is the current tab  *)
(* index; last records the click just handled (NoClick after any other     *)
(* action): its panel, the field texts it read, the canvas it found and its *)
(* outcome. arg and ret serve the specification of the parser; splash is   *)
(* the splash screen main() puts before the window.                        *)

\* PlotWidget.__init__
NewPlotWidget == [edit_f1 |-> <<>>, edit_f2 |-> <<>>, canvas |-> EmptyAxes]

NoClick == [panel |-> 0]

Click(p, panel, out) ==
    [panel |-> p, f1 |-> panel.edit_f1, f2 |-> panel.edit_f2,
     canvas_before |-> panel.canvas,
     calls |-> out.calls, dialogs |-> out.dialogs, exprs |-> out.exprs,
     solve |-> out.solve, solutions |-> out.solutions, roots |-> out.roots]

\* the user types into a field (QLineEdit)
SetText(p, field, text) ==
    /\ p \in 1..Len(tabs)
    /\ tabs' = [tabs EXCEPT ![p][field] = text]
    /\ last' = NoClick
    /\ UNCHANGED <<current, arg, ret, splash>>

\* the state after a click on panel p with outcome out
Clicked(p, out) ==
    /\ tabs' = [tabs EXCEPT ![p].canvas = out.canvas]
    /\ last' = Click(p, tabs[p], out)
    /\ UNCHANGED <<current, arg, ret, splash>>

\* the solve button of panel p is clicked
SolveClicked(p, oracles) ==
    /\ p \in 1..Len(tabs)
    /\ \E oracle \in oracles : Clicked(p, on_solve(tabs[p], oracle))

\* insertTab(0, ...)
add_new_tab_in_front(list) == <<NewPlotWidget>> \o list

\* MainWindow.add_new_tab
add_new_tab(list) == Append(list, NewPlotWidget)

----------------------------------------------------------------------------
(* A specification of the parser alone: a text is drawn, then parsed. *)

MaxLen == 3

ShortAlphabet == {"x", "2", "+", "(", ")", "^", "$", " "}

RECURSIVE SeqsUpTo(_, _)
SeqsUpTo(S, n) ==
    IF n = 0 THEN {<<>>}
    ELSE LET prev == SeqsUpTo(S, n - 1)
         IN  prev \cup {Append(q, c) : q \in {p \in prev : Len(p) = n - 1}, c \in S}

\* Texts that use the two function names, as calls and as parts of other names.
NamedTexts ==
    { <<"s", "q", "r", "t", "(", "x", ")">>,
      <<"l", "o", "g", "1", "0", "(", "x", ")">>,
      <<"s", "q", "r", "t", " ", "x">>,
      <<"s", "q", "r", "t">>,
      <<"x", "s", "q", "r", "t">>,
      <<"s", "q", "l", "o", "g", "1", "0", "r", "t">>,
      <<"l", "o", "l", "o", "g", "1", "0", "g", "1", "0">>,
      <<"x", "s", "q", "r", "t", "(", "2", ")">>,
      <<"s", "q", "r", "t", "(", "x", ")", "$">>,
      <<"2", "^", "s", "q", "r", "t", "(", "x", ")", "#", "$">>,
      <<"s", "q", "r", "t", "(", "x">>,
      <<"l", "o", "g", "(", "x", ")">>,
      <<"1", ".", "5", "x", "/", "2">> }

ParseTexts == SeqsUpTo(ShortAlphabet, MaxLen) \cup NamedTexts

NoTabs == <<>>

InitParse ==
    /\ tabs = NoTabs
    /\ current = 0
    /\ last = <<>>
    /\ arg \in ParseTexts
    /\ ret = <<>>
    /\ splash = NoSplash

Parse ==
    /\ ret = <<>>
    /\ ret' = <<string_to_sympy_expr(arg)>>
    /\ UNCHANGED <<tabs, current, last, arg, splash>>

NextParse == Parse

SpecParse == InitParse /\ [][NextParse]_vars

----------------------------------------------------------------------------
(* The main window: tabs are added, fields edited, solve buttons clicked. *)

MaxTabs == 2

T_empty == <<>>

T_blank == <<" ">>

T_x == <<"x">>

T_sqrt_x == <<"s", "q", "r", "t", "(", "x", ")">>

T_log10_x == <<"l", "o", "g", "1", "0", "(", "x", ")">>

T_x_dollar == <<"x", "$">>

T_open_paren == <<"(", "x">>

T_sqrt == <<"s", "q", "r", "t">>

T_2x_padded == <<" ", "2", "x", " ">>

WindowTexts == {T_x, T_x_dollar}

WindowOracles == {Raises, Returns(<<Sol(Fl(2, FALSE), TRUE, TRUE)>>)}

\* MainWindow.__init__
Init ==
    /\ tabs = add_new_tab(<<>>)
    /\ current = 1
    /\ last = NoClick
    /\ arg = <<>>
    /\ ret = <<>>
    /\ splash = NoSplash

\* File > New Tab
AddNewTab ==
    /\ Len(tabs) < MaxTabs
    /\ tabs' = add_new_tab(tabs)
    /\ current' = Len(tabs')
    /\ last' = NoClick
    /\ UNCHANGED <<arg, ret, splash>>

Next ==
    \/ \E p \in 1..Len(tabs), field \in {"edit_f1", "edit_f2"}, text \in WindowTexts :
         SetText(p, field, text)
    \/ \E p \in 1..Len(tabs) : SolveClicked(p, WindowOracles)
    \/ AddNewTab

Spec == Init /\ [][Next]_vars

----------------------------------------------------------------------------
(* One click on a new panel whose two fields hold drawn texts. *)

MaxSols == 2

RequestTexts ==
    {T_empty, T_blank, T_x, T_2x_padded, T_sqrt_x, T_log10_x, T_x_dollar,
     T_open_paren, T_sqrt}

\* 2^60, as a float
BigRoot == Fl(1, TRUE)

SolChoices ==
    { Sol(Fl(-3, FALSE), TRUE, TRUE),
      Sol(Fl(2, FALSE), TRUE, TRUE),
      Sol(BigRoot, TRUE, TRUE),
      Sol(Fl(0, FALSE), FALSE, TRUE),
      Sol(Fl(2, FALSE), TRUE, FALSE) }

RequestOracles == {Raises} \cup {Returns(sols) : sols \in SeqsUpTo(SolChoices, MaxSols)}

\* what the canvas shows after x and x were plotted (solve finds no solution)
PriorPlot == plot_functions(XNode, XNode, <<>>)

InitRequest ==
    /\ \E t1, t2 \in RequestTexts, c \in {EmptyAxes, PriorPlot} :
         tabs = <<[edit_f1 |-> t1, edit_f2 |-> t2, canvas |-> c]>>
    /\ current = 1
    /\ last = NoClick
    /\ arg = <<>>
    /\ ret = <<>>
    /\ splash = NoSplash

NextRequest == last = NoClick /\ SolveClicked(1, RequestOracles)

SpecRequest == InitRequest /\ [][NextRequest]_vars

----------------------------------------------------------------------------
(* main(): the window is made, then the splash screen, which is shown; the  *)
(* event loop then delivers the timer's timeouts.                           *)

\* window = MainWindow()
InitSplash ==
    /\ tabs = add_new_tab(<<>>)
    /\ current = 1
    /\ last = NoClick
    /\ arg = <<>>
    /\ ret = <<>>
    /\ splash = NoSplash

\* splash = SplashScreen(1200, 800, window)
MakeSplash ==
    /\ splash.at = "none"
    /\ splash' = NewSplashScreen
    /\ UNCHANGED <<tabs, current, last, arg, ret>>

\* splash.show(); app.processEvents(); app.exec_()
ShowSplash ==
    /\ splash.at = "made"
    /\ splash' = [splash EXCEPT !.at = "exec", !.visible = TRUE]
    /\ UNCHANGED <<tabs, current, last, arg, ret>>

\* the event loop delivers a timeout of the running timer
Tick ==
    /\ splash.at = "exec"
    /\ splash.timer_active
    /\ splash' = update_progress(splash)
    /\ UNCHANGED <<tabs, current, last, arg, ret>>

NextSplash == MakeSplash \/ ShowSplash \/ Tick

\* a running QTimer keeps timing out while the event loop runs
SpecSplash == InitSplash /\ [][NextSplash]_vars /\ WF_vars(NextSplash)

----------------------------------------------------------------------------
(* Claims about the parser (SpecParse) *)

Returned == ret # <<>>

\* the allowed set as the claim lists it
ListedChars == Digits \cup {"x", "+", "-", "*", "/", "(", ")", "."} \cup Whitespace

Outside(s, allowed) == {i \in 1..Len(s) : s[i] \notin allowed}

FirstOutside(s, allowed) ==
    s[CHOOSE i \in Outside(s, allowed) : \A j \in Outside(s, allowed) : i <= j]

C7_OnlyX ==
    (Returned /\ ~ret[1].raised /\ ret[1].kind = "expr") =>
        free_symbols(ret[1].node) \subseteq {"x"}

----------------------------------------------------------------------------
(* Claims about one click (SpecRequest) *)

Done == last # NoClick

Called(step) == \E i \in 1..Len(last.calls) : last.calls[i] = step

Canvas == tabs[last.panel].canvas

IsBlank(s) == \A i \in 1..Len(s) : s[i] \in Whitespace

BlankFields == {f \in {"f1", "f2"} : IsBlank(last[f])}

HasCritical == \E i \in 1..Len(last.dialogs) : last.dialogs[i].kind = "critical"

\* float(val) and float(expr_f1.subs(x, float_x)) both succeed for sol
Converts(sol) == sol.float_ok /\ is_real(subs(last.exprs[1], ValueOf(sol.x)))

RECURSIVE Filter(_, _)
\* the subsequence of the solutions that are real, in order
Filter(sols, i) ==
    IF i > Len(sols) THEN <<>>
    ELSE (IF sols[i].is_real THEN <<sols[i]>> ELSE <<>>) \o Filter(sols, i + 1)

RootOf(sol) == <<sol.x, subs(last.exprs[1], ValueOf(sol.x))>>

\* C2: when sympy.solve raises for two parsed expressions, the root list is
\* empty, the "no real intersection" information is shown, no error dialog is
\* shown, and both curves are plotted.
C2_SolveErrorDegrades ==
    (Done /\ last.solve = "raised") =>
        /\ last.roots = <<>>
        /\ last.dialogs = <<Information(NoRealMsg)>>
        /\ Called("plot")
        /\ Canvas = plot_functions(last.exprs[1], last.exprs[2], <<>>)

\* the fields an error message names as empty
FieldsNamed(dialog) == IF dialog.msg = EmptyMsg THEN {"f1", "f2"} ELSE {}

\* C3 as stated: with a blank field the click fails with an error that names
\* the blank field(s), and nothing is parsed, solved or plotted.
C3_AsStated ==
    (Done /\ BlankFields # {}) =>
        /\ last.calls = <<>>
        /\ Len(last.dialogs) = 1 /\ last.dialogs[1].kind = "critical"
        /\ FieldsNamed(last.dialogs[1]) = BlankFields

\* C3 amended: with a blank field the click fails with the one error message
\* "Both function fields must be filled.", whichever field is blank, and
\* nothing is parsed, solved or plotted.
C3_BlankInputRejected ==
    (Done /\ BlankFields # {}) =>
        /\ last.calls = <<>>
        /\ last.solve = "none"
        /\ last.dialogs = <<Critical(EmptyMsg, <<>>)>>

\* only the first field is blank (it holds whitespace), over an earlier plot
C3_Witness ==
    /\ Done /\ BlankFields = {"f1"} /\ last.f1 # <<>>
    /\ last.canvas_before.kind = "plot"
    /\ last.dialogs = <<Critical(EmptyMsg, <<>>)>>

\* C4: a real solution whose conversion to a float (or whose y) fails is
\* skipped: the other real roots are plotted and no error is shown.
C4_BadRootSkipped ==
    (Done /\ last.solve = "returned"
          /\ \E i \in 1..Len(last.solutions) :
                last.solutions[i].is_real /\ ~Converts(last.solutions[i])) =>
        /\ ~HasCritical
        /\ Called("plot")
        /\ last.roots = [i \in 1..Len(SelectSeq(Filter(last.solutions, 1), Converts)) |->
                            RootOf(SelectSeq(Filter(last.solutions, 1), Converts)[i])]

\* f is g + c in real arithmetic
IsSum(f, g, c) == BigPart(f) = BigPart(g) /\ SmallPart(f) = SmallPart(g) + c

RootXs == [i \in 1..Len(last.roots) |-> last.roots[i][1]]

\* C5: the plotted domain is [min(root.x) - 5, max(root.x) + 5] for a
\* non-empty root list and [-10, 10] for an empty one; x_min < x_max.
C5_Domain ==
    (Done /\ Called("plot")) =>
        /\ last.roots # <<>> =>
             /\ IsSum(Canvas.x_min, pymin(RootXs), -5)
             /\ IsSum(Canvas.x_max, pymax(RootXs), 5)
        /\ last.roots = <<>> =>
             /\ Canvas.x_min = Fl(-10, FALSE)
             /\ Canvas.x_max = Fl(10, FALSE)
        /\ FLess(Canvas.x_min, Canvas.x_max)

SampleX(i) == linspace(Canvas.x_min, Canvas.x_max, 400, i)

Marked(expr, vals, i) ==
    IF is_real(subs(expr, SampleX(i)))
    THEN vals[i] = subs(expr, SampleX(i)) /\ vals[i].k \in {"q", "r"}
    ELSE vals[i].k = "nan"

\* C6: each of the two curves has 400 samples; a sample is the undefined
\* marker where the expression's value there is not real, and that value
\* where it is.
C6_SamplesMarked ==
    (Done /\ Called("plot")) =>
        /\ Len(Canvas.f1_vals) = 400
        /\ Len(Canvas.f2_vals) = 400
        /\ \A i \in 1..400 :
             /\ Marked(last.exprs[1], Canvas.f1_vals, i)
             /\ Marked(last.exprs[2], Canvas.f2_vals, i)

\* a plotted curve with undefined samples and real samples
C6_Witness ==
    /\ Done /\ Called("plot")
    /\ Canvas.f1_vals[1].k = "nan" /\ Canvas.f1_vals[400].k \in {"q", "r"}
    /\ Canvas.f2_vals[1].k = "q" /\ Canvas.f2_vals[400].k = "q"

\* the first of the two texts whose parsing or validation fails
FirstFailure ==
    IF string_to_sympy_expr(strip(last.f1)).raised
    THEN <<string_to_sympy_expr(strip(last.f1))>>
    ELSE IF string_to_sympy_expr(strip(last.f2)).raised
    THEN <<string_to_sympy_expr(strip(last.f2))>>
    ELSE <<>>

\* C8: when parsing or validation of either text fails, the error is
\* reported, sympy.solve and plot_functions are not called, and the canvas is
\* left as it was.
C8_ParseFailureAborts ==
    (Done /\ BlankFields = {} /\ FirstFailure # <<>>) =>
        /\ last.dialogs = <<Critical(ErrorMsg, ExcOf(FirstFailure[1]))>>
        /\ ~Called("solve") /\ ~Called("plot") /\ last.solve = "none"
        /\ Canvas = last.canvas_before

\* the first text is rejected for a character while the canvas shows a plot
C8_Witness ==
    /\ Done /\ BlankFields = {}
    /\ last.canvas_before.kind = "plot"
    /\ last.calls = <<"parse">>
    /\ last.dialogs[1].exc.type = "ValueError"
    /\ Canvas.kind = "plot"

\* C9: the plotted roots are the real solutions sympy.solve returned, in the
\* order returned, duplicates kept, each with y = expr_f1 at its x.
C9_RootsInSolveOrder ==
    (Done /\ Called("plot")) =>
        /\ last.roots = [i \in 1..Len(Filter(last.solutions, 1)) |->
                            RootOf(Filter(last.solutions, 1)[i])]
        /\ Canvas.points = last.roots

\* two roots plotted in descending order of x
C9_Witness ==
    /\ Done /\ Called("plot")
    /\ Len(last.roots) = 2
    /\ FLess(last.roots[2][1], last.roots[1][1])

\* no plotted value is one the arithmetic of the model could not classify
ModelCovers ==
    (Done /\ Called("plot")) =>
        /\ \A i \in 1..400 :
             /\ subs(last.exprs[1], SampleX(i)).k # "u"
             /\ subs(last.exprs[2], SampleX(i)).k # "u"
        /\ \A i \in 1..Len(last.solutions) :
             subs(last.exprs[1], ValueOf(last.solutions[i].x)).k # "u"

----------------------------------------------------------------------------
(* Claims about the window (Spec) *)

\* C10: New Tab adds exactly one panel, at the end, makes it current and
\* leaves the panels before it as they were; a click on one panel changes no
\* other panel.
C10_PanelsIndependent ==
    [][ /\ Len(tabs') \in {Len(tabs), Len(tabs) + 1}
        /\ Len(tabs') = Len(tabs) + 1 =>
             /\ SubSeq(tabs', 1, Len(tabs)) = tabs
             /\ current' = Len(tabs')
        /\ last' # NoClick =>
             /\ Len(tabs') = Len(tabs)
             /\ \A q \in 1..Len(tabs) : q # last'.panel => tabs'[q] = tabs[q]
             /\ tabs'[last'.panel].edit_f1 = tabs[last'.panel].edit_f1
             /\ tabs'[last'.panel].edit_f2 = tabs[last'.panel].edit_f2 ]_vars

\* the second panel has just plotted while the first still shows its plot
C10_Witness ==
    /\ Len(tabs) = 2 /\ current = 2
    /\ last # NoClick /\ last.panel = 2 /\ Called("plot")
    /\ tabs[1].canvas.kind = "plot"
    /\ tabs[1].edit_f1 = T_x_dollar

----------------------------------------------------------------------------
(* Claims about the splash screen (SpecSplash) *)

MainWindowShown == splash.main_window_shows > 0

\* C11: progress_value starts at 0 and each timer tick raises it by exactly
\* one; the main window is not shown before progress_value reaches 100; when
\* it reaches 100 the timer is stopped, the splash closes and the main window
\* is shown; under fair ticks the main window is eventually shown, exactly
\* once, and progress_value never exceeds 100.
C11_SplashProgress ==
    /\ splash.progress_value = 0
    /\ [][splash'.progress_value # splash.progress_value =>
            /\ splash.timer_active
            /\ splash'.progress_value = splash.progress_value + 1]_vars
    /\ [](/\ splash.progress_value \in 0..100
          /\ MainWindowShown => splash.progress_value = 100
          /\ splash.progress_value = 100 =>
               /\ ~splash.timer_active
               /\ ~splash.visible
               /\ splash.main_window_shows = 1
          /\ splash.main_window_shows <= 1)
    /\ <>[](splash.main_window_shows = 1)

\* the hundredth tick has closed the splash and shown the main window
C11_Witness ==
    /\ splash.at = "exec"
    /\ splash.progress_value = 100
    /\ ~splash.timer_active /\ ~splash.visible
    /\ splash.main_window_shows = 1

====
